---- MODULE Spec2Model ----
(***************************************************************************)
(* The resume generator of cv_generator/app.py as a state machine.         *)
(*                                                                         *)
(* One behaviour is a sequence of script runs (Streamlit reruns app.py     *)
(* from the top on every interaction).  The only state that outlives a run *)
(* is the build directory.  Python strings are sequences of one-character  *)
(* strings; a dict is a function whose domain is its set of keys.          *)
(***************************************************************************)
EXTENDS Integers, Sequences, FiniteSets, TLC

\* ------------------------------------------------------------------ bounds
MaxRuns == 2

MaxPages == 2

\* --------------------------------------------------------------- constants
\* os.path.join(BUILD_DIR, "resume.pdf")
PdfPath == "build/resume.pdf"

\* The None that compile_latex returns on a failed compile
NoPath == "None"

NoException == "none"

\* Python strings used as dict keys and values
S_name == <<"n", "a", "m", "e">>

S_title == <<"t", "i", "t", "l", "e">>

S_photo_path == <<"p", "h", "o", "t", "o", "_", "p", "a", "t", "h">>

S_user_photo_jpg == <<"u", "s", "e", "r", "_", "p", "h", "o", "t", "o", ".", "j", "p", "g">>

\* ------------------------------------------------------------ the inputs
\* The text PyMuPDF gives for one page
PageTexts == {<<>>, <<"a">>, <<"b", "c">>}

RECURSIVE SeqsUpTo(_, _)
SeqsUpTo(S, n) ==
  IF n = 0 THEN {<<>>}
  ELSE LET shorter == SeqsUpTo(S, n - 1)
       IN  shorter \cup {Append(s, x) : s \in {t \in shorter : Len(t) = n - 1}, x \in S}

Documents == SeqsUpTo(PageTexts, MaxPages)

\* Response bodies of the structuring service: JSON objects and two that are not
Q == "\""

B_empty == <<"{", "}">>

B_name == <<"{", Q>> \o S_name \o <<Q, ":", Q, "J", Q, "}">>

B_two == <<"{", Q>> \o S_name \o <<Q, ":", " ", Q, "J", Q, ",", "\n", Q>>
           \o S_title \o <<Q, ":", Q, "E", Q, "\n", "}">>

B_truncated == <<"{", Q>> \o S_name \o <<Q, ":">>

B_absent == <<>>

ValidBodies == {B_empty, B_name, B_two}

Bodies == ValidBodies \cup {B_truncated, B_absent}

\* The character U+0060 (grave accent), which cannot be written in a TLA+ string
GRAVE == "U+0060"

Fence == <<GRAVE, GRAVE, GRAVE>>

LeadFences == {"none", "bare", "tagged"}

TrailFences == {"none", "fence"}

LeadText(lead) ==
  CASE lead = "none" -> <<>>
    [] lead = "bare" -> Fence \o <<"\n">>
    [] lead = "tagged" -> Fence \o <<"j", "s", "o", "n", "\n">>

TrailText(trail) ==
  CASE trail = "none" -> <<>>
    [] trail = "fence" -> <<"\n">> \o Fence

Wrap(body, lead, trail) == LeadText(lead) \o body \o TrailText(trail)

\* What pdflatex prints on a run
CompilerOutputs == {"! Undefined control sequence.", "No pages of output."}


\* ------------------------------------------------------- pure functions
EmptyDict == [k \in {} |-> <<>>]

\* d[k] = v of a Python dict
DictSet(d, k, v) == [x \in DOMAIN d \cup {k} |-> IF x = k THEN v ELSE d[x]]

JSONDecodeError == [ok |-> FALSE, value |-> EmptyDict, next |-> 0]

IsWs(c) == c \in {" ", "\n", "\t", "\r"}

RECURSIVE SkipWs(_, _)
SkipWs(s, i) == IF i <= Len(s) /\ IsWs(s[i]) THEN SkipWs(s, i + 1) ELSE i

\* The index of the first double quote at or after i; 0 when there is none
RECURSIVE ScanStringEnd(_, _)
ScanStringEnd(s, i) ==
  IF i > Len(s) THEN 0
  ELSE IF s[i] = Q THEN i
  ELSE ScanStringEnd(s, i + 1)

\* A JSON string literal at index i (the payload alphabet has no backslash)
ScanString(s, i) ==
  IF i > Len(s) \/ s[i] # Q
  THEN [ok |-> FALSE, str |-> <<>>, next |-> i]
  ELSE LET j == ScanStringEnd(s, i + 1)
       IN  IF j = 0
           THEN [ok |-> FALSE, str |-> <<>>, next |-> i]
           ELSE [ok |-> TRUE, str |-> SubSeq(s, i + 1, j - 1), next |-> j + 1]

\* The members of a JSON object from index i, up to and including its "}"
RECURSIVE ParseMembers(_, _, _)
ParseMembers(s, i, acc) ==
  LET key == ScanString(s, SkipWs(s, i))
      colon == SkipWs(s, key.next)
      val == ScanString(s, SkipWs(s, colon + 1))
      after == SkipWs(s, val.next)
  IN  IF ~key.ok THEN JSONDecodeError
      ELSE IF colon > Len(s) \/ s[colon] # ":" THEN JSONDecodeError
      ELSE IF ~val.ok THEN JSONDecodeError
      ELSE IF after > Len(s) THEN JSONDecodeError
      ELSE IF s[after] = "," THEN ParseMembers(s, after + 1, DictSet(acc, key.str, val.str))
      ELSE IF s[after] = "}"
           THEN [ok |-> TRUE, value |-> DictSet(acc, key.str, val.str), next |-> after + 1]
      ELSE JSONDecodeError

\* json.loads on the payloads above: one object of string members, surrounded
\* by optional whitespace and nothing else
json_loads(s) ==
  LET i == SkipWs(s, 1)
      j == SkipWs(s, i + 1)
      obj == IF j <= Len(s) /\ s[j] = "}"
             THEN [ok |-> TRUE, value |-> EmptyDict, next |-> j + 1]
             ELSE ParseMembers(s, j, EmptyDict)
  IN  IF i > Len(s) \/ s[i] # "{" THEN JSONDecodeError
      ELSE IF ~obj.ok THEN JSONDecodeError
      ELSE IF SkipWs(s, obj.next) <= Len(s) THEN JSONDecodeError
      ELSE obj

\* get_ai_data: one generate_content call, then json.loads(response.text)
get_ai_data(resp) ==
  IF resp.raises THEN [raised |-> "ServiceError", value |-> EmptyDict]
  ELSE LET parsed == json_loads(resp.text)
       IN  IF parsed.ok THEN [raised |-> NoException, value |-> parsed.value]
           ELSE [raised |-> "JSONDecodeError", value |-> EmptyDict]

\* The template: literal text and \VAR{key} sites
TemplateSegments ==
  << [var |-> FALSE, s |-> <<"N", "=">>], [var |-> TRUE, s |-> S_name],
     [var |-> FALSE, s |-> <<";", "T", "=">>], [var |-> TRUE, s |-> S_title],
     [var |-> FALSE, s |-> <<";", "P", "=">>], [var |-> TRUE, s |-> S_photo_path] >>

\* jinja2 with the default Undefined: a missing variable renders as nothing
RenderSegment(seg, data) ==
  IF ~seg.var THEN seg.s
  ELSE IF seg.s \in DOMAIN data THEN data[seg.s]
  ELSE <<>>

RECURSIVE RenderFrom(_, _)
RenderFrom(n, data) ==
  IF n = 0 THEN <<>>
  ELSE RenderFrom(n - 1, data) \o RenderSegment(TemplateSegments[n], data)

render(data) == RenderFrom(Len(TemplateSegments), data)


\* ------------------------------------------------------------------ state
VARIABLES
  run,            \* number of the current script run; 0 before the first
  pc,             \* position of the current run in app.py
  disk,           \* the build directory; files carry the run that wrote them
  uploaded_cv,    \* [present, valid, pages]
  uploaded_photo, \* whether a photo was uploaded
  api_key,        \* whether the sidebar field holds a key
  clicked,        \* whether the Generate button was pressed
  text,           \* extract_text_from_pdf: the accumulator
  page_i,         \* extract_text_from_pdf: the next page of the loop
  raw_text,       \* the extracted text, once returned
  response,       \* what the structuring service answered
  ai,             \* "none", "ok" or "failed"
  cv_data,        \* the dict of get_ai_data (compile_latex's data is the same object)
  latex_content,  \* the rendered template
  proc,           \* what the pdflatex subprocess did
  pdf_path,       \* the value compile_latex returned
  ui,             \* what the page shows: warnings, errors, successes, download, preview
  uncaught,       \* the exception that left the script, if any
  stages,         \* the stages this run has executed, in order
  aiRequests,     \* generate_content calls of this run
  compilerRuns    \* pdflatex invocations of this run

inputVars == <<uploaded_cv, uploaded_photo, api_key, clicked>>

extractVars == <<text, page_i, raw_text>>

aiVars == <<response, ai, aiRequests>>

compileVars == <<latex_content, proc, pdf_path, compilerRuns>>

vars == <<run, pc, disk, uploaded_cv, uploaded_photo, api_key, clicked, text, page_i,
          raw_text, response, ai, cv_data, latex_content, proc, pdf_path, ui, uncaught,
          stages, aiRequests, compilerRuns>>

NoFile == [run |-> 0, content |-> <<>>]

NoResponse == [raises |-> FALSE, body |-> <<>>, lead |-> "none", trail |-> "none", text |-> <<>>]

NoProc == [outcome |-> "none", wrote |-> FALSE, output |-> ""]

EmptyPage == [warnings |-> {}, errors |-> {}, successes |-> {}, download |-> 0, preview |-> FALSE]

Uploads ==
  {[present |-> FALSE, valid |-> FALSE, pages |-> <<>>],
   [present |-> TRUE, valid |-> FALSE, pages |-> <<>>]}
  \cup {[present |-> TRUE, valid |-> TRUE, pages |-> d] : d \in Documents}

Responses ==
  {[raises |-> TRUE, body |-> <<>>, lead |-> "none", trail |-> "none", text |-> <<>>]}
  \cup {[raises |-> FALSE, body |-> b, lead |-> l, trail |-> t, text |-> Wrap(b, l, t)] :
          b \in Bodies, l \in LeadFences, t \in TrailFences}

Init ==
  /\ run = 0
  /\ pc = "idle"
  /\ disk = [dir |-> FALSE, photo |-> 0, tex |-> NoFile, pdf |-> 0]
  /\ uploaded_cv = [present |-> FALSE, valid |-> FALSE, pages |-> <<>>]
  /\ uploaded_photo = FALSE
  /\ api_key = FALSE
  /\ clicked = FALSE
  /\ text = <<>>
  /\ page_i = 1
  /\ raw_text = <<>>
  /\ response = NoResponse
  /\ ai = "none"
  /\ cv_data = EmptyDict
  /\ latex_content = <<>>
  /\ proc = NoProc
  /\ pdf_path = NoPath
  /\ ui = EmptyPage
  /\ uncaught = NoException
  /\ stages = <<>>
  /\ aiRequests = 0
  /\ compilerRuns = 0

\* ---------------------------------------------------------------- actions
\* Streamlit runs app.py from the top: every name of the script is fresh, the page
\* is redrawn, and the widgets hold what the user has put in them.
StartRun ==
  /\ pc \in {"idle", "done"}
  /\ run < MaxRuns
  /\ run' = run + 1
  /\ pc' = "makedirs"
  /\ \E cv \in Uploads, photo \in BOOLEAN, key \in BOOLEAN, click \in BOOLEAN :
       /\ uploaded_cv' = cv
       /\ uploaded_photo' = photo
       /\ api_key' = key
       /\ clicked' = click
  /\ text' = <<>>
  /\ page_i' = 1
  /\ raw_text' = <<>>
  /\ response' = NoResponse
  /\ ai' = "none"
  /\ cv_data' = EmptyDict
  /\ latex_content' = <<>>
  /\ proc' = NoProc
  /\ pdf_path' = NoPath
  /\ ui' = EmptyPage
  /\ uncaught' = NoException
  /\ stages' = <<>>
  /\ aiRequests' = 0
  /\ compilerRuns' = 0
  /\ UNCHANGED disk

\* os.makedirs(BUILD_DIR, exist_ok=True)
EnsureBuildDir ==
  /\ pc = "makedirs"
  /\ disk' = [disk EXCEPT !.dir = TRUE]
  /\ stages' = Append(stages, "makedirs")
  /\ pc' = "sidebar"
  /\ UNCHANGED <<run, inputVars, extractVars, aiVars, cv_data, compileVars, ui, uncaught>>

\* The sidebar's key field and its warning
ApiKeyInput ==
  /\ pc = "sidebar"
  /\ ui' = IF ~api_key
           THEN [ui EXCEPT !.warnings = @ \cup {"Please enter your API Key to proceed."}]
           ELSE ui
  /\ pc' = "gate"
  /\ UNCHANGED <<run, disk, inputVars, extractVars, aiVars, cv_data, compileVars, uncaught,
                 stages>>

\* if uploaded_cv and uploaded_photo and api_key: if st.button(...):
InputGate ==
  /\ pc = "gate"
  /\ pc' = IF uploaded_cv.present /\ uploaded_photo /\ api_key /\ clicked
           THEN "open" ELSE "done"
  /\ UNCHANGED <<run, disk, inputVars, extractVars, aiVars, cv_data, compileVars, ui,
                 uncaught, stages>>

\* extract_text_from_pdf: fitz.open, which raises on bytes that are no PDF; text = ""
OpenDocument ==
  /\ pc = "open"
  /\ stages' = Append(stages, "extract")
  /\ text' = <<>>
  /\ page_i' = 1
  /\ IF uploaded_cv.valid
     THEN /\ pc' = "pages"
          /\ UNCHANGED uncaught
     ELSE /\ pc' = "done"
          /\ uncaught' = "FileDataError"
  /\ UNCHANGED <<run, disk, inputVars, raw_text, aiVars, cv_data, compileVars, ui>>

\* ExtractPage with a page break put after every page
ExtractPage_PageBreak ==
  /\ pc = "pages"
  /\ page_i <= Len(uploaded_cv.pages)
  /\ text' = text \o uploaded_cv.pages[page_i] \o <<"\n">>
  /\ page_i' = page_i + 1
  /\ UNCHANGED <<run, pc, disk, inputVars, raw_text, aiVars, cv_data, compileVars, ui,
                 uncaught, stages>>

\* for page in doc: text += page.get_text()
ExtractPage ==
  /\ pc = "pages"
  /\ page_i <= Len(uploaded_cv.pages)
  /\ text' = text \o uploaded_cv.pages[page_i]
  /\ page_i' = page_i + 1
  /\ UNCHANGED <<run, pc, disk, inputVars, raw_text, aiVars, cv_data, compileVars, ui,
                 uncaught, stages>>

\* return text
ExtractReturn ==
  /\ pc = "pages"
  /\ page_i > Len(uploaded_cv.pages)
  /\ raw_text' = text
  /\ pc' = "ai"
  /\ UNCHANGED <<run, disk, inputVars, text, page_i, aiVars, cv_data, compileVars, ui,
                 uncaught, stages>>

\* RequestStructuring without the st.stop() of its except branch
RequestStructuring_NoStop ==
  /\ pc = "ai"
  /\ \E resp \in Responses :
       LET got == get_ai_data(resp)
       IN  /\ response' = resp
           /\ IF got.raised = NoException
              THEN /\ cv_data' = got.value
                   /\ ai' = "ok"
                   /\ ui' = [ui EXCEPT !.successes = @ \cup {"Analysis Complete!"}]
              ELSE /\ cv_data' = cv_data
                   /\ ai' = "failed"
                   /\ ui' = [ui EXCEPT !.errors =
                               @ \cup {[text |-> "AI Error: ", detail |-> got.raised]}]
           /\ pc' = "photo"
  /\ aiRequests' = aiRequests + 1
  /\ stages' = Append(stages, "structure")
  /\ UNCHANGED <<run, disk, inputVars, extractVars, compileVars, uncaught>>

\* RequestStructuring asking the service once more after a failure
RequestStructuring_Retry ==
  /\ pc = "ai"
  /\ aiRequests < 2
  /\ \E resp \in Responses :
       LET got == get_ai_data(resp)
       IN  /\ response' = resp
           /\ IF got.raised = NoException
              THEN /\ cv_data' = got.value
                   /\ ai' = "ok"
                   /\ ui' = [ui EXCEPT !.successes = @ \cup {"Analysis Complete!"}]
                   /\ pc' = "photo"
              ELSE /\ cv_data' = cv_data
                   /\ ai' = "failed"
                   /\ ui' = [ui EXCEPT !.errors =
                               @ \cup {[text |-> "AI Error: ", detail |-> got.raised]}]
                   /\ pc' = IF aiRequests = 0 THEN "ai" ELSE "done"
  /\ aiRequests' = aiRequests + 1
  /\ stages' = Append(stages, "structure")
  /\ UNCHANGED <<run, disk, inputVars, extractVars, compileVars, uncaught>>

\* try: cv_data = get_ai_data(...); st.success(...)
\* except Exception as e: st.error(f"AI Error: {e}"); st.stop()
RequestStructuring ==
  /\ pc = "ai"
  /\ \E resp \in Responses :
       LET got == get_ai_data(resp)
       IN  /\ response' = resp
           /\ IF got.raised = NoException
              THEN /\ cv_data' = got.value
                   /\ ai' = "ok"
                   /\ ui' = [ui EXCEPT !.successes = @ \cup {"Analysis Complete!"}]
                   /\ pc' = "photo"
              ELSE /\ cv_data' = cv_data
                   /\ ai' = "failed"
                   /\ ui' = [ui EXCEPT !.errors =
                               @ \cup {[text |-> "AI Error: ", detail |-> got.raised]}]
                   /\ pc' = "done"
  /\ aiRequests' = aiRequests + 1
  /\ stages' = Append(stages, "structure")
  /\ UNCHANGED <<run, disk, inputVars, extractVars, compileVars, uncaught>>

\* with open(os.path.join(BUILD_DIR, "user_photo.jpg"), "wb") as f: f.write(...)
SavePhoto ==
  /\ pc = "photo"
  /\ disk' = [disk EXCEPT !.photo = run]
  /\ stages' = Append(stages, "photo")
  /\ pc' = "inject"
  /\ UNCHANGED <<run, inputVars, extractVars, aiVars, cv_data, compileVars, ui, uncaught>>

\* compile_latex(cv_data, "user_photo.jpg"): data['photo_path'] = photo_filename
InjectPhotoPath ==
  /\ pc = "inject"
  /\ cv_data' = DictSet(cv_data, S_photo_path, S_user_photo_jpg)
  /\ stages' = Append(stages, "inject")
  /\ pc' = "render"
  /\ UNCHANGED <<run, disk, inputVars, extractVars, aiVars, compileVars, ui, uncaught>>

\* RenderTemplate going on to pdflatex without the rendered text being saved
RenderTemplate_NotSaved ==
  /\ pc = "render"
  /\ latex_content' = render(cv_data)
  /\ stages' = Append(stages, "render")
  /\ pc' = "compile"
  /\ UNCHANGED <<run, disk, inputVars, extractVars, aiVars, cv_data, proc, pdf_path,
                 compilerRuns, ui, uncaught>>

\* latex_content = env.get_template(TEMPLATE_FILE).render(data)
RenderTemplate ==
  /\ pc = "render"
  /\ latex_content' = render(cv_data)
  /\ stages' = Append(stages, "render")
  /\ pc' = "write"
  /\ UNCHANGED <<run, disk, inputVars, extractVars, aiVars, cv_data, proc, pdf_path,
                 compilerRuns, ui, uncaught>>

\* with open(tex_path, "w") as f: f.write(latex_content)
WriteTex ==
  /\ pc = "write"
  /\ disk' = [disk EXCEPT !.tex = [run |-> run, content |-> latex_content]]
  /\ stages' = Append(stages, "write_tex")
  /\ pc' = "compile"
  /\ UNCHANGED <<run, inputVars, extractVars, aiVars, cv_data, compileVars, ui, uncaught>>

\* What pdflatex can do: it is not on the PATH; it exits nonzero; it exits 0.  With
\* either exit status it has or has not written build/resume.pdf.  Its output goes
\* to the terminal of the server: subprocess.run is given no capture_output.
ProcOutcomes ==
  {[outcome |-> "missing", wrote |-> FALSE, output |-> ""]}
  \cup {[outcome |-> o, wrote |-> w, output |-> out] :
          o \in {"nonzero", "zero"}, w \in BOOLEAN, out \in CompilerOutputs}

\* st.error("LaTeX Compilation Failed! Check the logs."): a fixed text, no detail
LatexError == [text |-> "LaTeX Compilation Failed! Check the logs.", detail |-> ""]

\* RunCompiler with "except Exception" in place of "except CalledProcessError"
RunCompiler_CatchAll ==
  /\ pc = "compile"
  /\ \E p \in ProcOutcomes :
       /\ proc' = p
       /\ disk' = IF p.wrote THEN [disk EXCEPT !.pdf = run] ELSE disk
       /\ IF p.outcome \in {"missing", "nonzero"}
          THEN /\ ui' = [ui EXCEPT !.errors = @ \cup {LatexError}]
               /\ pdf_path' = NoPath
               /\ pc' = "verify"
               /\ UNCHANGED uncaught
          ELSE /\ pdf_path' = PdfPath
               /\ pc' = "verify"
               /\ UNCHANGED <<ui, uncaught>>
  /\ compilerRuns' = compilerRuns + 1
  /\ stages' = Append(stages, "compile")
  /\ UNCHANGED <<run, inputVars, extractVars, aiVars, cv_data, latex_content>>

\* try: subprocess.run(["pdflatex", ...], check=True)
\* except subprocess.CalledProcessError: st.error(...); return None
\* return os.path.join(BUILD_DIR, "resume.pdf")
RunCompiler ==
  /\ pc = "compile"
  /\ \E p \in ProcOutcomes :
       /\ proc' = p
       /\ disk' = IF p.wrote THEN [disk EXCEPT !.pdf = run] ELSE disk
       /\ IF p.outcome = "missing"
          THEN /\ uncaught' = "FileNotFoundError"
               /\ pdf_path' = NoPath
               /\ pc' = "done"
               /\ UNCHANGED ui
          ELSE IF p.outcome = "nonzero"
          THEN /\ ui' = [ui EXCEPT !.errors = @ \cup {LatexError}]
               /\ pdf_path' = NoPath
               /\ pc' = "verify"
               /\ UNCHANGED uncaught
          ELSE /\ pdf_path' = PdfPath
               /\ pc' = "verify"
               /\ UNCHANGED <<ui, uncaught>>
  /\ compilerRuns' = compilerRuns + 1
  /\ stages' = Append(stages, "compile")
  /\ UNCHANGED <<run, inputVars, extractVars, aiVars, cv_data, latex_content>>

\* if pdf_path and os.path.exists(pdf_path):
VerifyArtifact ==
  /\ pc = "verify"
  /\ stages' = Append(stages, "verify")
  /\ pc' = IF pdf_path # NoPath /\ disk.pdf # 0 THEN "offer" ELSE "done"
  /\ UNCHANGED <<run, disk, inputVars, extractVars, aiVars, cv_data, compileVars, ui,
                 uncaught>>

\* st.download_button(data=open(pdf_path, "rb"), ...), then the preview
OfferDownload ==
  /\ pc = "offer"
  /\ ui' = [ui EXCEPT !.download = disk.pdf, !.preview = TRUE]
  /\ stages' = Append(stages, "offer")
  /\ pc' = "done"
  /\ UNCHANGED <<run, disk, inputVars, extractVars, aiVars, cv_data, compileVars, uncaught>>

Next ==
  \/ StartRun
  \/ EnsureBuildDir
  \/ ApiKeyInput
  \/ InputGate
  \/ OpenDocument
  \/ ExtractPage
  \/ ExtractReturn
  \/ RequestStructuring
  \/ SavePhoto
  \/ InjectPhotoPath
  \/ RenderTemplate
  \/ WriteTex
  \/ RunCompiler
  \/ VerifyArtifact
  \/ OfferDownload

Spec == Init /\ [][Next]_vars


\* ----------------------------------------------------------------- claims
Ran(stage) == \E i \in DOMAIN stages : stages[i] = stage

FailureReported == ui.errors # {} \/ uncaught # NoException

ArtifactOffered == ui.download # 0

\* C1: a run that got past its input gate ends either with build/resume.pdf offered
\* and on disk, or with a failure reported, and never with neither.
C1_ArtifactOrFailure ==
  (pc = "done" /\ Ran("extract")) =>
    \/ ArtifactOffered /\ disk.pdf # 0 /\ ~FailureReported
    \/ FailureReported /\ ~ArtifactOffered

\* C2: when pdflatex exits nonzero, the run reports a failure whose text is the
\* non-empty output of the compiler, and returns no artifact path.
C2_CompileFailureCarriesOutput ==
  (pc = "done" /\ proc.outcome = "nonzero") =>
    /\ pdf_path = NoPath
    /\ ~ArtifactOffered
    /\ \E e \in ui.errors : e.detail # "" /\ e.detail = proc.output

Fenced(resp) == ~resp.raises /\ (resp.lead # "none" \/ resp.trail # "none")

Unwrapped(resp) == [resp EXCEPT !.lead = "none", !.trail = "none", !.text = resp.body]

\* C3: a JSON object wrapped in code-fence markers gives the record that the
\* unwrapped object gives, and no failure.
C3_FencedAsUnwrapped ==
  (ai # "none" /\ Fenced(response) /\ response.body \in ValidBodies) =>
    /\ ai = "ok"
    /\ pc = "photo" => cv_data = get_ai_data(Unwrapped(response)).value

\* C4: a run whose structuring request failed is over, has reported the failure,
\* and has written no photo, rendered nothing, written no resume.tex, not run the
\* compiler and offered no artifact.
C4_StructuringFailureAborts ==
  ai = "failed" =>
    /\ pc = "done"
    /\ \E e \in ui.errors : e.text = "AI Error: " /\ e.detail # ""
    /\ ~Ran("photo") /\ disk.photo # run
    /\ ~Ran("render") /\ latex_content = <<>>
    /\ ~Ran("write_tex") /\ disk.tex.run # run
    /\ ~Ran("compile") /\ compilerRuns = 0 /\ disk.pdf # run
    /\ ~ArtifactOffered

\* A failed structuring request in a run that finds the files of an earlier run
C4_Witness ==
  /\ ai = "failed"
  /\ ~response.raises
  /\ disk.photo # 0 /\ disk.tex.run # 0 /\ disk.pdf # 0

\* C5: a missing pdflatex ends the run with a failure that differs from the one a
\* nonzero exit gives, and neither returns an artifact path.
C5_MissingToolDistinct ==
  /\ proc.outcome = "missing" =>
       /\ pc = "done"
       /\ uncaught = "FileNotFoundError"
       /\ LatexError \notin ui.errors
       /\ pdf_path = NoPath /\ ~ArtifactOffered
  /\ proc.outcome = "nonzero" =>
       /\ uncaught = NoException
       /\ LatexError \in ui.errors
       /\ pdf_path = NoPath /\ ~ArtifactOffered

C5_Witness == pc = "done" /\ proc.outcome = "missing" /\ Ran("compile")

S_show_photo == <<"s", "h", "o", "w", "_", "p", "h", "o", "t", "o">>

\* C6: without a photo the pipeline still runs, with show_photo false and an empty
\* photo_path in the render context; with a photo show_photo is true and photo_path
\* names the stored photo.
C6_PhotoContext ==
  /\ (pc = "done" /\ uploaded_cv.present /\ uploaded_cv.valid /\ api_key /\ clicked
        /\ ~uploaded_photo)
       => /\ Ran("structure")
          /\ ai = "ok" =>
               /\ Ran("render")
               /\ S_show_photo \in DOMAIN cv_data /\ cv_data[S_show_photo] = FALSE
               /\ S_photo_path \in DOMAIN cv_data /\ cv_data[S_photo_path] = <<>>
  /\ (Ran("render") /\ uploaded_photo)
       => /\ S_show_photo \in DOMAIN cv_data /\ cv_data[S_show_photo] = TRUE
          /\ S_photo_path \in DOMAIN cv_data /\ cv_data[S_photo_path] = S_user_photo_jpg

StageOrder ==
  <<"makedirs", "extract", "structure", "photo", "inject", "render", "write_tex",
    "compile", "verify", "offer">>

\* C8: the stages of a run are executed in the one fixed order; the artifact is
\* offered only after the compiler has returned, and the compiler runs only after
\* build/resume.tex was written in the same run.
C8_StageOrder ==
  /\ Len(stages) <= Len(StageOrder)
  /\ \A i \in DOMAIN stages : stages[i] = StageOrder[i]
  /\ Ran("photo") => disk.photo = run
  /\ Ran("render") => S_photo_path \in DOMAIN cv_data
  /\ Ran("compile") => disk.tex = [run |-> run, content |-> render(cv_data)]
  /\ ArtifactOffered => Ran("compile") /\ proc.outcome = "zero" /\ Ran("verify")

C8_Witness == pc = "done" /\ stages = StageOrder

RECURSIVE SumLen(_, _)
\* The length of the first n page texts together
SumLen(pages, n) == IF n = 0 THEN 0 ELSE SumLen(pages, n - 1) + Len(pages[n])

\* t is the first n page texts one after the other, nothing between them
IsConcatenation(t, pages, n) ==
  /\ Len(t) = SumLen(pages, n)
  /\ \A p \in 1..n : \A k \in 1..Len(pages[p]) : t[SumLen(pages, p - 1) + k] = pages[p][k]

\* C9: the text extracted from a valid document is its page texts in page order
\* with nothing between them, so its length is the sum of their lengths.
C9_ExtractIsConcatenation ==
  /\ pc = "pages" => IsConcatenation(text, uploaded_cv.pages, page_i - 1)
  /\ Ran("structure") =>
       IsConcatenation(raw_text, uploaded_cv.pages, Len(uploaded_cv.pages))

C9_Witness ==
  /\ pc = "ai"
  /\ Len(uploaded_cv.pages) = MaxPages
  /\ \A p \in 1..MaxPages : uploaded_cv.pages[p] # <<>>
  /\ Len(raw_text) > MaxPages

\* C10: build/resume.pdf is offered only when the compiler of the same run wrote it.
C10_OfferedArtifactIsOwn ==
  ArtifactOffered => ui.download = run /\ proc.wrote

====
